---- MODULE Spec2Model ----
(***************************************************************************)
(* The quiz application of src/index.tsx as a state machine: the App      *)
(* component's state, its event handlers, the continuations of its five   *)
(* asynchronous generation handlers and the deferred auto-advance that    *)
(* handleAnswerSelect schedules with setTimeout.                          *)
(*                                                                         *)
(* currentQuestionIndex is 0-based as in the source; TLA+ sequences are   *)
(* 1-based, so questions[i] of the source is questions[i + 1] here.       *)
(* The score is kept in quarter points (+1 is 4, -0.25 is -1).            *)
(* The flags that only choose what a view displays (theme, showSolutions, *)
(* showPrepositionHighlighting) are read by no handler and are left out.  *)
(* The texts the renderers read (storyContent, a question's sentence) are  *)
(* sequences of characters; a tag that a renderer writes is one element.  *)
(***************************************************************************)
EXTENDS Integers, Sequences, FiniteSets, TLC

VARIABLES
    quizState,             \* useState<QuizState>('idle')
    questions,             \* useState<Question[]>([])
    currentQuestionIndex,  \* useState(0)
    userAnswers,           \* useState<string[]>([])
    file,                  \* useState<File | null>(null)
    storyContent,          \* useState<string>('')
    loadingMessage,        \* useState<string>('')
    intervals,             \* the setInterval timers not cleared, each with its messageIndex
    pending,               \* the generation handler suspended at an await
    timers,                \* the setTimeout callbacks not yet run, oldest first
    mounted,               \* FALSE once a render has thrown and React removed the tree
    lastStep               \* history: the step that led here, its alert, what it was given

vars == <<quizState, questions, currentQuestionIndex, userAnswers,
          file, storyContent, loadingMessage, intervals, pending, timers, mounted,
          lastStep>>

\* ---------------------------------------------------------------- bounds

MaxQuestions == 2   \* records in one response of the service
MaxCallbacks == 2   \* callbacks outstanding at once: timeouts and requests in flight
MaxTicks == 1       \* ticks of the loading interval while one request is awaited
MaxPieces == 5      \* pieces a text given to a renderer is put together from

\* ------------------------------------------------------------ data model

null == "null"
undefined == "undefined"

\* The records the service answers with. The response schema asks for a sentence,
\* options and correct_answer; nothing else constrains a record.
Question(sentence, options, correct_answer) ==
    [sentence |-> sentence, options |-> options, correct_answer |-> correct_answer]

ServiceRecords ==
    { Question(<<"a">>, <<"a", "b">>, "a"),   \* the correct answer among distinct options
      Question(<<"a">>, <<"b", "b">>, "a") }  \* a repeated option, the correct answer absent

\* A record that came without its options field.
noOptions == <<undefined>>

\* What JSON.parse returns when it returns a list: up to MaxQuestions records, or a
\* list with a record that lacks its options.
ParsedResponses ==
    UNION {[1..n -> ServiceRecords] : n \in 0..MaxQuestions}
        \cup {<<Question(<<"a">>, noOptions, "a")>>}

\* A generation request in flight belongs to one of the four quiz handlers, whose
\* continuations are the same code, or to the story handler.
Kinds == {"quiz", "story"}
NonePending == [k \in Kinds |-> 0]
InFlight(p) == p["quiz"] + p["story"]

\* The files the user can pick, and the file state's null.
noFile == [name |-> null, type |-> null]
MarkdownFile == [name |-> "notes.md", type |-> ""]
TextFile == [name |-> "notes.txt", type |-> "text/plain"]
Extension(f) == IF f.name = "notes.md" THEN ".md" ELSE ".txt"

\* The texts the service may return for a story.
Stories == {<<"*", "*", "o", "f", "*", "*">>}

\* The texts given to the renderers: up to MaxPieces pieces, one after the other.
RECURSIVE concat(_)
concat(pieces) == IF pieces = <<>> THEN <<>> ELSE Head(pieces) \o concat(Tail(pieces))

Texts(pieces) == {concat(t) : t \in UNION {[1..n -> pieces] : n \in 0..MaxPieces}}

\* "# Title\n\nSome **bold** text"
titleAndBoldText ==
    << "#", " ", "T", "i", "t", "l", "e", "\n", "\n",
       "S", "o", "m", "e", " ", "*", "*", "b", "o", "l", "d", "*", "*", " ", "t", "e", "x", "t" >>

\* Story texts in markdown.
MarkdownTexts ==
    Texts({<<"#">>, <<" ">>, <<"a">>, <<"*", "*">>, <<"*">>, <<"_">>, <<"\n">>})
        \cup {titleAndBoldText}

\* Question sentences, with and without the underline markers.
Sentences ==
    Texts({<<"<", "u", "n", "d", "e", "r", "l", "i", "n", "e", ">">>,
           <<"<", "/", "u", "n", "d", "e", "r", "l", "i", "n", "e", ">">>,
           <<"a">>, <<"<">>, <<"\n">>})

Step(op, alert, response) == [op |-> op, alert |-> alert, response |-> response]

\* --------------------------------------------------------- pure functions

InsertAt(s, i, x) == SubSeq(s, 1, i) \o <<x>> \o SubSeq(s, i + 1, Len(s))

\* Mutant of shuffleArray: one random element drawn per position, with replacement.
shuffleArray_withReplacement(array) ==
    [1..Len(array) -> {array[i] : i \in 1..Len(array)}]

\* [...array].sort(() => Math.random() - 0.5): a sort whose comparator answers at
\* random. Each element is placed wherever the answers it gets put it, so every
\* placement of each element is an outcome.
RECURSIVE shuffleArray(_)
shuffleArray(array) ==
    IF array = <<>> THEN {<<>>}
    ELSE LET n == Len(array)
         IN UNION {{InsertAt(s, i, array[n]) : i \in 0..Len(s)} :
                   s \in shuffleArray(SubSeq(array, 1, n - 1))}

\* parsedQuestions.map(q => ({...q, options: shuffleArray(q.options)})): every list
\* the map can produce.
RECURSIVE questionsWithShuffledOptions(_)
questionsWithShuffledOptions(parsedQuestions) ==
    IF parsedQuestions = <<>> THEN {<<>>}
    ELSE LET q == parsedQuestions[1]
         IN {<<[q EXCEPT !.options = o]>> \o rest :
               o \in shuffleArray(q.options),
               rest \in questionsWithShuffledOptions(Tail(parsedQuestions))}

\* [...undefined] throws a TypeError inside the map.
MapThrows(parsedQuestions) ==
    \E i \in 1..Len(parsedQuestions) : parsedQuestions[i].options = noOptions

\* Mutant of NullArray: one slot short.
NullArray_oneShort(n) == [i \in 1..(IF n > 0 THEN n - 1 ELSE 0) |-> null]

\* new Array(n).fill(null)
NullArray(n) == [i \in 1..n |-> null]

\* questions[index]?.correct_answer
CorrectAnswerAt(qs, index) ==
    IF index + 1 \in 1..Len(qs) THEN qs[index + 1].correct_answer ELSE undefined

\* Mutant of ScoreFold: an unanswered slot is penalised like a wrong answer.
RECURSIVE ScoreFold_nullPenalised(_, _, _)
ScoreFold_nullPenalised(answers, qs, n) ==
    IF n = 0 THEN 0
    ELSE LET total == ScoreFold_nullPenalised(answers, qs, n - 1)
         IN IF answers[n] = CorrectAnswerAt(qs, n - 1) THEN total + 4 ELSE total - 1

\* Mutant of ScoreFold: a wrong answer adds a quarter point instead of taking it.
RECURSIVE ScoreFold_signSlip(_, _, _)
ScoreFold_signSlip(answers, qs, n) ==
    IF n = 0 THEN 0
    ELSE LET total == ScoreFold_signSlip(answers, qs, n - 1)
             answer == answers[n]
         IN IF answer = null THEN total
            ELSE IF answer = CorrectAnswerAt(qs, n - 1) THEN total + 4
            ELSE total + 1

\* userAnswers.reduce(...), in quarter points, over the first n answers.
RECURSIVE ScoreFold(_, _, _)
ScoreFold(answers, qs, n) ==
    IF n = 0 THEN 0
    ELSE LET total == ScoreFold(answers, qs, n - 1)
             answer == answers[n]
         IN IF answer = null THEN total
            ELSE IF answer = CorrectAnswerAt(qs, n - 1) THEN total + 4
            ELSE total - 1

score == ScoreFold(userAnswers, questions, Len(userAnswers))

\* renderContent returns without throwing: in the active case it reads
\* currentQuestion.sentence, a TypeError when questions[currentQuestionIndex] is
\* undefined.
renderContent(st, qs, index) == st = "active" => index + 1 \in 1..Len(qs)

\* ---------------------------------------------------------- the renderers

\* String.prototype.startsWith and String.prototype.substring(n).
startsWith(text, prefix) ==
    Len(prefix) <= Len(text) /\ SubSeq(text, 1, Len(prefix)) = prefix

substring(text, n) == SubSeq(text, n + 1, Len(text))

\* The first index at which the sequence part occurs in text, 0 when it does not.
indexOf(text, part) ==
    LET found == {i \in 1..(Len(text) - Len(part) + 1) :
                     SubSeq(text, i, i + Len(part) - 1) = part}
    IN IF found = {} THEN 0 ELSE CHOOSE i \in found : \A j \in found : i <= j

\* markdownContent.split('\n\n')
RECURSIVE split(_)
split(text) ==
    LET i == indexOf(text, <<"\n", "\n">>)
    IN IF i = 0 THEN <<text>>
       ELSE <<SubSeq(text, 1, i - 1)>> \o split(substring(text, i + 1))

\* paragraph.trim() === ''
WhiteSpace == {" ", "\n"}
trimIsEmpty(paragraph) == \A i \in 1..Len(paragraph) : paragraph[i] \in WhiteSpace

\* Where the lazy group (.*?) of a pattern ends: the first index from `from` on at
\* which `close` occurs with no line terminator before it, which `.` does not
\* match; 0 when the pattern does not match here.
lazyEnd(text, close, from) ==
    LET ends == {j \in from..(Len(text) - Len(close) + 1) :
                    /\ SubSeq(text, j, j + Len(close) - 1) = close
                    /\ \A k \in from..(j - 1) : text[k] # "\n"}
    IN IF ends = {} THEN 0 ELSE CHOOSE j \in ends : \A k \in ends : j <= k

\* Mutant of replace: the pattern has lost its g flag, so only the first match is
\* replaced.
RECURSIVE replace_firstMatchOnly(_, _, _, _, _)
replace_firstMatchOnly(text, open, close, before, after) ==
    IF text = <<>> THEN <<>>
    ELSE IF startsWith(text, open) /\ lazyEnd(text, close, Len(open) + 1) # 0
    THEN LET j == lazyEnd(text, close, Len(open) + 1)
         IN before \o SubSeq(text, Len(open) + 1, j - 1) \o after
               \o substring(text, j + Len(close) - 1)
    ELSE <<Head(text)>> \o replace_firstMatchOnly(Tail(text), open, close, before, after)

\* text.replace(/open(.*?)close/g, 'before$1after'): the matches are taken from
\* left to right and what is written is not scanned again.
RECURSIVE replace(_, _, _, _, _)
replace(text, open, close, before, after) ==
    IF text = <<>> THEN <<>>
    ELSE IF startsWith(text, open) /\ lazyEnd(text, close, Len(open) + 1) # 0
    THEN LET j == lazyEnd(text, close, Len(open) + 1)
         IN before \o SubSeq(text, Len(open) + 1, j - 1) \o after
               \o replace(substring(text, j + Len(close) - 1), open, close, before, after)
    ELSE <<Head(text)>> \o replace(Tail(text), open, close, before, after)

\* text.replace(/\n/g, '<br />')
lineBreaks(text) == [i \in 1..Len(text) |-> IF text[i] = "\n" THEN "<br />" ELSE text[i]]

\* Mutant of processInline: the italic patterns run before the bold ones.
processInline_italicFirst(text) ==
    LET italic == replace(text, <<"*">>, <<"*">>, <<"<em>">>, <<"</em>">>)
        italic2 == replace(italic, <<"_">>, <<"_">>, <<"<em>">>, <<"</em>">>)
        bold == replace(italic2, <<"*", "*">>, <<"*", "*">>, <<"<strong>">>, <<"</strong>">>)
        bold2 == replace(bold, <<"_", "_">>, <<"_", "_">>, <<"<strong>">>, <<"</strong>">>)
    IN lineBreaks(bold2)

\* processInline of StoryRenderer: bold, then italic, then line breaks.
processInline(text) ==
    LET bold == replace(text, <<"*", "*">>, <<"*", "*">>, <<"<strong>">>, <<"</strong>">>)
        bold2 == replace(bold, <<"_", "_">>, <<"_", "_">>, <<"<strong>">>, <<"</strong>">>)
        italic == replace(bold2, <<"*">>, <<"*">>, <<"<em>">>, <<"</em>">>)
        italic2 == replace(italic, <<"_">>, <<"_">>, <<"<em>">>, <<"</em>">>)
    IN lineBreaks(italic2)

\* The function that StoryRenderer maps over the paragraphs; '' is the empty sequence.
paragraphHtml(paragraph) ==
    IF trimIsEmpty(paragraph) THEN <<>>
    ELSE IF startsWith(paragraph, <<"#", " ">>)
    THEN <<"<h1>">> \o processInline(substring(paragraph, 2)) \o <<"</h1>">>
    ELSE IF startsWith(paragraph, <<"#", "#", " ">>)
    THEN <<"<h2>">> \o processInline(substring(paragraph, 3)) \o <<"</h2>">>
    ELSE IF startsWith(paragraph, <<"#", "#", "#", " ">>)
    THEN <<"<h3>">> \o processInline(substring(paragraph, 4)) \o <<"</h3>">>
    ELSE <<"<p>">> \o processInline(paragraph) \o <<"</p>">>

\* Array.prototype.join('')
RECURSIVE join(_)
join(parts) == IF parts = <<>> THEN <<>> ELSE Head(parts) \o join(Tail(parts))

\* storyHtml of StoryRenderer.
StoryRenderer(markdownContent) ==
    LET paragraphs == split(markdownContent)
    IN join([i \in 1..Len(paragraphs) |-> paragraphHtml(paragraphs[i])])

\* The markers of the question sentences.
underlineOpen == <<"<", "u", "n", "d", "e", "r", "l", "i", "n", "e", ">">>
underlineClose == <<"<", "/", "u", "n", "d", "e", "r", "l", "i", "n", "e", ">">>

\* html of QuestionRenderer.
QuestionRenderer(sentence) ==
    replace(sentence, underlineOpen, underlineClose, <<"<u>">>, <<"</u>">>)

\* The loading messages of the effect on quizState.
messages ==
    << "Analyzing your notes...",
       "Reading the markdown file...",
       "Consulting the AI oracle...",
       "Crafting challenging questions...",
       "Untangling key concepts...",
       "Brewing a fresh batch of quizzes...",
       "Assembling answers...",
       "Generating preposition questions...",
       "Constructing complex sentences...",
       "Analyzing sentence structures...",
       "Weaving a captivating tale...",
       "Building a world of words..." >>

\* Mutant of useEffect: the effect returns no cleanup, so no interval is cleared.
useEffect_noCleanup ==
    IF mounted' /\ quizState' # quizState /\ quizState' = "loading"
    THEN /\ loadingMessage' = messages[1]
         /\ intervals' = Append(intervals, [messageIndex |-> 0])
    ELSE UNCHANGED <<loadingMessage, intervals>>

\* useEffect(..., [quizState]), run by React after the render that a step causes.
\* When quizState has changed, the cleanup of the previous run clears its interval
\* and, if the new state is loading, the effect sets messages[0] and starts an
\* interval with messageIndex 0. Removing the tree runs the cleanup as well. The
\* message that handleGenerateStory sets in the same batch as 'loading' is
\* replaced by messages[0] before any other step.
useEffect ==
    IF ~mounted'
    THEN /\ intervals' = <<>>
         /\ UNCHANGED loadingMessage
    ELSE IF quizState' = quizState
    THEN UNCHANGED <<loadingMessage, intervals>>
    ELSE IF quizState' = "loading"
    THEN /\ loadingMessage' = messages[1]
         /\ intervals' = <<[messageIndex |-> 0]>>
    ELSE /\ intervals' = <<>>
         /\ UNCHANGED loadingMessage

\* ------------------------------------------------------------------ Init

Init ==
    /\ quizState = "idle"
    /\ questions = <<>>
    /\ currentQuestionIndex = 0
    /\ userAnswers = <<>>
    /\ file = noFile
    /\ storyContent = <<>>
    /\ loadingMessage = ""
    /\ intervals = <<>>
    /\ pending = NonePending
    /\ timers = <<>>
    /\ mounted = TRUE
    /\ lastStep = Step("init", FALSE, <<>>)

\* ------------------------------------------------------ the file input

\* handleFileChange, offered by the idle view only.
handleFileChange(selectedFile) ==
    /\ mounted
    /\ quizState = "idle"
    /\ IF selectedFile.type = "text/markdown" \/ Extension(selectedFile) = ".md"
       THEN /\ file' = selectedFile
            /\ lastStep' = Step("handleFileChange", FALSE, <<selectedFile>>)
       ELSE /\ file' = noFile
            /\ lastStep' = Step("handleFileChange", TRUE, <<selectedFile>>)
    /\ UNCHANGED <<quizState, questions, currentQuestionIndex, userAnswers,
                   storyContent, pending, timers, mounted>>
    /\ useEffect

\* ------------------------------------------- the generation handlers

\* The part of a generation handler up to its first await: setQuizState('loading').
StartGeneration(handler, kind) ==
    /\ mounted
    /\ quizState = "idle"
    /\ Len(timers) + InFlight(pending) < MaxCallbacks
    /\ quizState' = "loading"
    /\ pending' = [pending EXCEPT ![kind] = @ + 1]
    /\ lastStep' = Step(handler, FALSE, <<>>)
    /\ UNCHANGED <<questions, currentQuestionIndex, userAnswers,
                   file, storyContent, timers, mounted>>
    /\ useEffect

\* The button is disabled while no file is selected.
handleGenerateQuiz == file # noFile /\ StartGeneration("handleGenerateQuiz", "quiz")

handleGeneratePrepositionQuiz == StartGeneration("handleGeneratePrepositionQuiz", "quiz")

handleGenerateFixedPrepositionQuiz == StartGeneration("handleGenerateFixedPrepositionQuiz", "quiz")

handleGenerateSentenceTypeQuiz == StartGeneration("handleGenerateSentenceTypeQuiz", "quiz")

handleGenerateStory == StartGeneration("handleGenerateStory", "story")

\* The catch block of a generation handler: alert, setQuizState('idle'). The state
\* setters of a component that is no longer mounted do nothing.
CatchBlock(kind) ==
    /\ pending' = [pending EXCEPT ![kind] = @ - 1]
    /\ quizState' = IF mounted THEN "idle" ELSE quizState
    /\ lastStep' = Step("catch", TRUE, <<>>)
    /\ UNCHANGED <<questions, currentQuestionIndex, userAnswers,
                   file, storyContent, timers, mounted>>
    /\ useEffect

\* Mutant of TryBlock: setCurrentQuestionIndex(0) is left out.
TryBlock_keepsIndex(parsedQuestions) ==
    \E shuffled \in questionsWithShuffledOptions(parsedQuestions) :
        /\ pending' = [pending EXCEPT !["quiz"] = @ - 1]
        /\ IF mounted
           THEN /\ questions' = shuffled
                /\ userAnswers' = NullArray(Len(shuffled))
                /\ UNCHANGED currentQuestionIndex
                /\ quizState' = "active"
                /\ mounted' = renderContent(quizState', questions', currentQuestionIndex')
           ELSE UNCHANGED <<questions, userAnswers, currentQuestionIndex, quizState, mounted>>
        /\ lastStep' = Step("try", FALSE, parsedQuestions)
        /\ UNCHANGED <<file, storyContent, timers>>
        /\ useEffect

\* The try block of a quiz handler after JSON.parse returned parsedQuestions: the
\* four setters run in one batch and the component renders once.
TryBlock(parsedQuestions) ==
    \E shuffled \in questionsWithShuffledOptions(parsedQuestions) :
        /\ pending' = [pending EXCEPT !["quiz"] = @ - 1]
        /\ IF mounted
           THEN /\ questions' = shuffled
                /\ userAnswers' = NullArray(Len(shuffled))
                /\ currentQuestionIndex' = 0
                /\ quizState' = "active"
                /\ mounted' = renderContent(quizState', questions', currentQuestionIndex')
           ELSE UNCHANGED <<questions, userAnswers, currentQuestionIndex, quizState, mounted>>
        /\ lastStep' = Step("try", FALSE, parsedQuestions)
        /\ UNCHANGED <<file, storyContent, timers>>
        /\ useEffect

\* The request of a quiz handler completes and its text parses as a list.
QuizResolved ==
    /\ pending["quiz"] > 0
    /\ \E parsedQuestions \in ParsedResponses :
          IF MapThrows(parsedQuestions)
          THEN CatchBlock("quiz")
          ELSE TryBlock(parsedQuestions)

\* The file cannot be read, the request fails, or JSON.parse throws.
QuizRejected ==
    /\ pending["quiz"] > 0
    /\ CatchBlock("quiz")

\* handleGenerateStory after its await: setStoryContent, setQuizState('story').
StoryResolved ==
    /\ pending["story"] > 0
    /\ \E text \in Stories :
          /\ pending' = [pending EXCEPT !["story"] = @ - 1]
          /\ storyContent' = IF mounted THEN text ELSE storyContent
          /\ quizState' = IF mounted THEN "story" ELSE quizState
          /\ lastStep' = Step("storyResolved", FALSE, <<>>)
          /\ UNCHANGED <<questions, currentQuestionIndex, userAnswers,
                         file, timers, mounted>>
          /\ useEffect

StoryRejected ==
    /\ pending["story"] > 0
    /\ CatchBlock("story")

\* ------------------------------------------------- the answer tracker

\* The option buttons of the active view: currentQuestion.options.map(...).
OptionButtons ==
    IF mounted /\ quizState = "active"
    THEN LET currentQuestion == questions[currentQuestionIndex + 1]
         IN {currentQuestion.options[i] : i \in 1..Len(currentQuestion.options)}
    ELSE {}

\* Mutant of handleAnswerSelect: a slot that holds an answer is not written again.
handleAnswerSelect_firstAnswerKept(answer) ==
    /\ mounted
    /\ quizState = "active"
    /\ Len(timers) + InFlight(pending) < MaxCallbacks
    /\ userAnswers' = [userAnswers EXCEPT ![currentQuestionIndex + 1] =
                                       IF @ = null THEN answer ELSE @]
    /\ timers' = Append(timers, [currentQuestionIndex |-> currentQuestionIndex,
                                 length |-> Len(questions)])
    /\ lastStep' = Step("handleAnswerSelect", FALSE, <<answer>>)
    /\ UNCHANGED <<quizState, questions, currentQuestionIndex,
                   file, storyContent, pending, mounted>>
    /\ useEffect

\* handleAnswerSelect, reached from an option button of the question on display:
\* the answer is recorded and the callback, which closes over this render's
\* currentQuestionIndex and questions, is scheduled.
handleAnswerSelect(answer) ==
    /\ mounted
    /\ quizState = "active"
    /\ Len(timers) + InFlight(pending) < MaxCallbacks
    /\ userAnswers' = [userAnswers EXCEPT ![currentQuestionIndex + 1] = answer]
    /\ timers' = Append(timers, [currentQuestionIndex |-> currentQuestionIndex,
                                 length |-> Len(questions)])
    /\ lastStep' = Step("handleAnswerSelect", FALSE, <<answer>>)
    /\ UNCHANGED <<quizState, questions, currentQuestionIndex,
                   file, storyContent, pending, mounted>>
    /\ useEffect

\* Mutant of TimeoutCallback: the bound compared is length, not length - 1.
TimeoutCallback_offByOne ==
    /\ timers # <<>>
    /\ LET t == Head(timers)
       IN /\ timers' = Tail(timers)
          /\ IF ~mounted
             THEN UNCHANGED <<quizState, currentQuestionIndex, mounted>>
             ELSE IF t.currentQuestionIndex < t.length
             THEN /\ currentQuestionIndex' = t.currentQuestionIndex + 1
                  /\ UNCHANGED quizState
                  /\ mounted' = renderContent(quizState', questions, currentQuestionIndex')
             ELSE /\ quizState' = "finished"
                  /\ UNCHANGED <<currentQuestionIndex, mounted>>
    /\ lastStep' = Step("timeout", FALSE, <<>>)
    /\ UNCHANGED <<questions, userAnswers, file, storyContent, pending>>
    /\ useEffect

\* The callback of setTimeout(..., 300). Callbacks of equal delay run in the order
\* they were scheduled; nothing cancels one.
TimeoutCallback ==
    /\ timers # <<>>
    /\ LET t == Head(timers)
       IN /\ timers' = Tail(timers)
          /\ IF ~mounted
             THEN UNCHANGED <<quizState, currentQuestionIndex, mounted>>
             ELSE IF t.currentQuestionIndex < t.length - 1
             THEN /\ currentQuestionIndex' = t.currentQuestionIndex + 1
                  /\ UNCHANGED quizState
                  /\ mounted' = renderContent(quizState', questions, currentQuestionIndex')
             ELSE /\ quizState' = "finished"
                  /\ UNCHANGED <<currentQuestionIndex, mounted>>
    /\ lastStep' = Step("timeout", FALSE, <<>>)
    /\ UNCHANGED <<questions, userAnswers, file, storyContent, pending>>
    /\ useEffect

\* Mutant of handleStopQuiz: the quiz finishes only once every slot is answered.
handleStopQuiz_whenComplete ==
    /\ mounted
    /\ quizState = "active"
    /\ quizState' = IF \A i \in 1..Len(userAnswers) : userAnswers[i] # null
                    THEN "finished" ELSE quizState
    /\ lastStep' = Step("handleStopQuiz", FALSE, <<>>)
    /\ UNCHANGED <<questions, currentQuestionIndex, userAnswers,
                   file, storyContent, pending, timers, mounted>>
    /\ useEffect

\* handleStopQuiz, the Stop Quiz button of the active view.
handleStopQuiz ==
    /\ mounted
    /\ quizState = "active"
    /\ quizState' = "finished"
    /\ lastStep' = Step("handleStopQuiz", FALSE, <<>>)
    /\ UNCHANGED <<questions, currentQuestionIndex, userAnswers,
                   file, storyContent, pending, timers, mounted>>
    /\ useEffect

\* Mutant of handleRestart: the selected file is kept.
handleRestart_keepsFile ==
    /\ mounted
    /\ quizState \in {"finished", "story"}
    /\ quizState' = "idle"
    /\ questions' = <<>>
    /\ userAnswers' = <<>>
    /\ currentQuestionIndex' = 0
    /\ storyContent' = <<>>
    /\ lastStep' = Step("handleRestart", FALSE, <<>>)
    /\ UNCHANGED <<file, pending, timers, mounted>>
    /\ useEffect

\* handleRestart, the button of the finished view and of the story view.
handleRestart ==
    /\ mounted
    /\ quizState \in {"finished", "story"}
    /\ quizState' = "idle"
    /\ questions' = <<>>
    /\ userAnswers' = <<>>
    /\ currentQuestionIndex' = 0
    /\ file' = noFile
    /\ storyContent' = <<>>
    /\ lastStep' = Step("handleRestart", FALSE, <<>>)
    /\ UNCHANGED <<pending, timers, mounted>>
    /\ useEffect

\* ------------------------------------------------ the loading interval

\* The callback of setInterval(..., 2500): the next message, cyclically.
IntervalCallback ==
    /\ intervals # <<>>
    /\ intervals[1].messageIndex < MaxTicks
    /\ LET messageIndex == (intervals[1].messageIndex + 1) % Len(messages)
       IN /\ intervals' = [intervals EXCEPT ![1] = [messageIndex |-> messageIndex]]
          /\ loadingMessage' = IF mounted THEN messages[messageIndex + 1] ELSE loadingMessage
    /\ lastStep' = Step("intervalCallback", FALSE, <<>>)
    /\ UNCHANGED <<quizState, questions, currentQuestionIndex, userAnswers,
                   file, storyContent, pending, timers, mounted>>

\* A click on one of the option buttons.
selectAnswer == \E answer \in OptionButtons : handleAnswerSelect(answer)

\* A file picked in the file input.
selectFile == \E selectedFile \in {MarkdownFile, TextFile} : handleFileChange(selectedFile)

\* ------------------------------------------------------- specification

Next ==
    \/ selectFile
    \/ handleGenerateQuiz
    \/ handleGeneratePrepositionQuiz
    \/ handleGenerateFixedPrepositionQuiz
    \/ handleGenerateSentenceTypeQuiz
    \/ handleGenerateStory
    \/ QuizResolved
    \/ QuizRejected
    \/ StoryResolved
    \/ StoryRejected
    \/ selectAnswer
    \/ TimeoutCallback
    \/ handleStopQuiz
    \/ handleRestart

\* The steps of the application but the ticks of the loading interval, which
\* write loadingMessage only and are part of SpecWithTicks.
Spec == Init /\ [][Next]_vars

\* The application with the ticks of the loading interval. The file input, which
\* only enables handleGenerateQuiz, stays empty here; the four other generation
\* handlers enter the loading state through the same code.
NextWithTicks ==
    \/ IntervalCallback
    \/ handleGeneratePrepositionQuiz
    \/ handleGenerateFixedPrepositionQuiz
    \/ handleGenerateSentenceTypeQuiz
    \/ handleGenerateStory
    \/ QuizResolved
    \/ QuizRejected
    \/ StoryResolved
    \/ StoryRejected
    \/ selectAnswer
    \/ TimeoutCallback
    \/ handleStopQuiz
    \/ handleRestart

SpecWithTicks == Init /\ [][NextWithTicks]_vars

\* The story view showing any story text: what StoryRenderer is given.
InitStory ==
    /\ quizState = "story"
    /\ storyContent \in MarkdownTexts
    /\ questions = <<>>
    /\ currentQuestionIndex = 0
    /\ userAnswers = <<>>
    /\ file = noFile
    /\ loadingMessage = messages[1]
    /\ intervals = <<>>
    /\ pending = NonePending
    /\ timers = <<>>
    /\ mounted = TRUE
    /\ lastStep = Step("storyResolved", FALSE, <<>>)

SpecStory == InitStory /\ [][handleRestart]_vars

\* The active view showing a question with any sentence: what QuestionRenderer is
\* given.
InitQuestion ==
    /\ quizState = "active"
    /\ \E sentence \in Sentences :
          /\ questions = <<Question(sentence, <<"a", "b">>, "a")>>
          /\ lastStep = Step("try", FALSE, questions)
    /\ currentQuestionIndex = 0
    /\ userAnswers = NullArray(1)
    /\ file = noFile
    /\ storyContent = <<>>
    /\ loadingMessage = messages[1]
    /\ intervals = <<>>
    /\ pending = NonePending
    /\ timers = <<>>
    /\ mounted = TRUE

SpecQuestion == InitQuestion /\ [][handleStopQuiz]_vars

\* ------------------------------------------------------------- claims

\* The step that led to the state after it was the named handler or callback.
StepWas(op) == lastStep'.op = op

\* The number of times x occurs in the sequence s.
Count(s, x) == Cardinality({i \in 1..Len(s) : s[i] = x})

\* C1: in every reachable state, through any sequence of generate, request
\* success, request failure, selectAnswer, deferred advance, stop and restart
\* steps, the user-answers array is exactly as long as the questions array.
C1_AnswersParallelQuestions == Len(userAnswers) = Len(questions)

\* C1 witness: a session of two questions in which the second question has been
\* answered after a deferred advance.
C1_Witness ==
    /\ quizState = "active"
    /\ Len(questions) = 2
    /\ currentQuestionIndex = 1
    /\ userAnswers[1] # null
    /\ userAnswers[2] # null

\* The changes of quizState the state controller is specified to make.
SpecifiedTransitions ==
    { <<"idle", "loading">>, <<"loading", "active">>, <<"loading", "idle">>,
      <<"loading", "story">>, <<"active", "finished">>, <<"finished", "idle">>,
      <<"story", "idle">> }

\* C2: every change of quizState is one of idle->loading, loading->active,
\* loading->idle, loading->story, active->finished, finished->idle and
\* story->idle, also when a deferred auto-advance fires after stop or restart.
C2_OnlySpecifiedTransitions ==
    [][quizState' # quizState => <<quizState, quizState'>> \in SpecifiedTransitions]_vars

\* C3: selectAnswer on the last question records the option at that index and
\* leaves the state active until its deferred step runs; that step, in the mounted
\* component, sets the state to finished and does not move the index.
C3_LastAnswerFinishes ==
    [][/\ (StepWas("handleAnswerSelect") /\ currentQuestionIndex = Len(questions) - 1)
          => /\ userAnswers'[currentQuestionIndex + 1] \in OptionButtons
             /\ currentQuestionIndex' = currentQuestionIndex
             /\ timers'[Len(timers')].currentQuestionIndex = timers'[Len(timers')].length - 1
       /\ (StepWas("timeout") /\ mounted
              /\ Head(timers).currentQuestionIndex = Head(timers).length - 1)
          => /\ quizState' = "finished"
             /\ currentQuestionIndex' = currentQuestionIndex]_vars

\* C3 witness: the deferred step of an answer to the last of two questions has run
\* and the session is finished with that answer recorded.
C3_Witness ==
    /\ lastStep.op = "timeout"
    /\ mounted
    /\ quizState = "finished"
    /\ Len(questions) = 2
    /\ currentQuestionIndex = 1
    /\ userAnswers[2] # null
    /\ timers = <<>>

\* C4: stop in the active state results in the state finished, whatever the
\* current index and whichever slots are answered.
C4_StopFinishes ==
    [][StepWas("handleStopQuiz") => (quizState = "active" /\ quizState' = "finished")]_vars

\* C4 witness: stop has ended a session of two questions none of which was answered.
C4_Witness ==
    /\ lastStep.op = "handleStopQuiz"
    /\ quizState = "finished"
    /\ Len(questions) = 2
    /\ \A i \in 1..Len(userAnswers) : userAnswers[i] = null

\* C5: restart leaves the state idle, the questions and the answers empty, the
\* index 0, the selected file cleared and the story content empty.
C5_RestartClears ==
    [][StepWas("handleRestart")
         => /\ quizState \in {"finished", "story"}
            /\ quizState' = "idle"
            /\ questions' = <<>>
            /\ userAnswers' = <<>>
            /\ currentQuestionIndex' = 0
            /\ file' = noFile
            /\ storyContent' = <<>>]_vars

\* C5 witness: restart has discarded a session in which an answer was given (its
\* deferred step is still outstanding).
C5_Witness ==
    /\ lastStep.op = "handleRestart"
    /\ quizState = "idle"
    /\ timers # <<>>
    /\ questions = <<>>

\* The slots holding the question's correct answer, and those holding another option.
CorrectSlots ==
    {i \in 1..Len(userAnswers) :
        i <= Len(questions) /\ userAnswers[i] = questions[i].correct_answer}
IncorrectSlots ==
    {i \in 1..Len(userAnswers) : userAnswers[i] # null /\ i \notin CorrectSlots}

\* C6: in every reachable state the score is k*1 - m*0.25, in quarter points
\* 4k - m, for k slots holding the correct answer and m slots holding another
\* option; null slots count nothing.
C6_ScoreFormula == score = 4 * Cardinality(CorrectSlots) - Cardinality(IncorrectSlots)

\* C6 witness: one correct answer, one incorrect answer.
C6_Witness ==
    /\ Cardinality(CorrectSlots) = 1
    /\ Cardinality(IncorrectSlots) = 1
    /\ score = 3

\* The step recorded the correct answer of the question on display.
SelectedCorrect ==
    /\ StepWas("handleAnswerSelect")
    /\ userAnswers'[currentQuestionIndex + 1] = CorrectAnswerAt(questions, currentQuestionIndex)

\* C7 as stated: the score is greater after a step than before it only if the step
\* is a selectAnswer that records the correct answer of the current question.
C7_ScoreRisesOnlyByCorrectAnswer == [][score' > score => SelectedCorrect]_vars

\* C7 as amended: the score is greater after a step than before it only if the
\* step is a selectAnswer that records the correct answer of the current question,
\* or the step discards the session (restart, or a generation result replacing it),
\* which puts a negative score back to 0.
C7_ScoreRisesByCorrectAnswerOrReset ==
    [][score' > score
         => \/ SelectedCorrect
            \/ (StepWas("handleRestart") /\ score < 0 /\ score' = 0)
            \/ (StepWas("try") /\ score < 0 /\ score' = 0)]_vars

\* C7 witness: a selectAnswer has just recorded the correct answer and the score
\* is positive.
C7_Witness ==
    /\ lastStep.op = "handleAnswerSelect"
    /\ quizState = "active"
    /\ userAnswers[currentQuestionIndex + 1] = CorrectAnswerAt(questions, currentQuestionIndex)
    /\ score > 0

\* stored is returned with its options permuted.
IsShuffleOf(stored, returned) ==
    /\ Len(stored.options) = Len(returned.options)
    /\ \A x \in {"a", "b", undefined} : Count(stored.options, x) = Count(returned.options, x)
    /\ stored.correct_answer = returned.correct_answer
    /\ stored.sentence = returned.sentence
    /\ Count(returned.options, returned.correct_answer) > 0
         => Count(stored.options, stored.correct_answer) > 0

\* C8: every question a quiz-generation handler stores has, as its options, a
\* permutation of the options the service returned (same length, same elements
\* with the same multiplicities), and keeps the correct answer among them if it
\* was among them. Stated of the state that the try block of a handler leaves:
\* lastStep holds the response and questions what was stored.
C8_ShuffleIsPermutation ==
    (lastStep.op = "try" /\ mounted)
        => /\ Len(questions) = Len(lastStep.response)
           /\ \A i \in 1..Len(questions) :
                 IsShuffleOf(questions[i], lastStep.response[i])

\* C8 witness: a stored session whose options stand in another order than the
\* service returned them, and that holds a record with a repeated option.
C8_Witness ==
    /\ lastStep.op = "try"
    /\ mounted
    /\ quizState = "active"
    /\ Len(questions) = 2
    /\ questions[1].options # lastStep.response[1].options
    /\ questions[2].options = <<"b", "b">>

\* C9: a request that fails or a response that cannot be parsed while the state
\* is loading makes the state idle, raises an alert and keeps nothing: questions,
\* answers and index are as before the generation (empty, empty, 0).
C9_FailureLeavesEmptyIdle ==
    [][(StepWas("catch") /\ quizState = "loading")
         => /\ quizState' = "idle"
            /\ lastStep'.alert
            /\ questions' = <<>>
            /\ userAnswers' = <<>>
            /\ currentQuestionIndex' = 0]_vars

\* The Question shape: exactly NumOptions distinct options, the correct answer one
\* of them.
NumOptions == 4
IsQuestionShape(q) ==
    /\ Len(q.options) = NumOptions
    /\ \A i, j \in 1..Len(q.options) : q.options[i] = q.options[j] => i = j
    /\ Count(q.options, q.correct_answer) > 0

\* C10: a response whose records do not match the Question shape is treated as a
\* failure, so every question of a session in state active or finished has
\* exactly 4 distinct options with correct_answer among them.
C10_SessionsHoldShapedQuestions ==
    quizState \in {"active", "finished"}
        => \A i \in 1..Len(questions) : IsQuestionShape(questions[i])

\* C11: at every point of every run at most one generation request is in flight,
\* whatever the interleaving of user actions, request completions and deferred
\* callbacks.
C11_OneRequestInFlight == InFlight(pending) <= 1

\* C12: from the step that issues a generation request until that request
\* succeeds or fails, the state is loading: while a request is in flight no user
\* action, interval tick or deferred callback has moved the state out of loading.
C12_LoadingUntilCompletion == InFlight(pending) > 0 => quizState = "loading"

\* C13: the loading interval is armed exactly while the state is loading: it is
\* started, with the first message, by every step that enters loading, no step
\* leaves it armed in another state, there is never more than one, and a tick
\* happens in the loading state only and changes nothing but the loading message.
C13_IntervalArmedWhileLoading ==
    [][/\ intervals' # <<>> <=> quizState' = "loading"
       /\ Len(intervals') <= 1
       /\ (quizState # "loading" /\ quizState' = "loading")
             => (intervals' = <<[messageIndex |-> 0]>> /\ loadingMessage' = messages[1])
       /\ StepWas("intervalCallback")
             => /\ quizState = "loading"
                /\ loadingMessage' = messages[intervals'[1].messageIndex + 1]
                /\ UNCHANGED <<quizState, questions, currentQuestionIndex, userAnswers,
                               file, storyContent, pending, timers, mounted>>]_vars

\* C13 witness: after a tick the state left loading through a deferred callback
\* while the request was still in flight, and no interval is armed.
C13_Witness ==
    /\ quizState = "finished"
    /\ InFlight(pending) > 0
    /\ loadingMessage = messages[2]
    /\ intervals = <<>>

\* C14: selecting a file that has neither the .md extension nor the markdown MIME
\* type shows a message and changes no state: quizState, questions, userAnswers,
\* currentQuestionIndex and the file selected before are the same after it.
C14_RejectionChangesNothing ==
    [][StepWas("handleFileChange")
          => LET selectedFile == lastStep'.response[1]
             IN (selectedFile.type # "text/markdown" /\ Extension(selectedFile) # ".md")
                   => /\ lastStep'.alert
                      /\ UNCHANGED <<quizState, questions, userAnswers,
                                     currentQuestionIndex, file>>]_vars

\* C15: while the state stays active, currentQuestionIndex never decreases from
\* one state to the next, under any interleaving of selectAnswer calls, repeated
\* ones included, and deferred callbacks.
C15_IndexNeverDecreases ==
    [][(quizState = "active" /\ quizState' = "active")
          => currentQuestionIndex' >= currentQuestionIndex]_vars

\* C16: every step into the active state creates a fresh session: after it the
\* index is 0, every answer slot is null, the score is 0, and the questions are
\* those of the response just received, one for one, so nothing of an earlier
\* session is left.
C16_ActiveStartsFresh ==
    [][(quizState # "active" /\ quizState' = "active")
          => /\ currentQuestionIndex' = 0
             /\ userAnswers' = NullArray(Len(questions'))
             /\ ScoreFold(userAnswers', questions', Len(userAnswers')) = 0
             /\ Len(questions') = Len(lastStep'.response)
             /\ \A i \in 1..Len(questions') :
                   LET returned == lastStep'.response[i]
                   IN /\ questions'[i].sentence = returned.sentence
                      /\ questions'[i].correct_answer = returned.correct_answer
                      /\ Len(questions'[i].options) = Len(returned.options)]_vars

\* C16 witness: a session of two questions was just created while a deferred
\* callback of an earlier session is still outstanding.
C16_Witness ==
    /\ quizState = "active"
    /\ mounted
    /\ lastStep.op = "try"
    /\ Len(questions) = 2
    /\ timers # <<>>

\* C19: selectAnswer(option) in the active state writes option, one of the options
\* on display, into the answer slot at the current index and leaves every other
\* slot, the questions, the index and the quiz state as they are at the moment of
\* the call; a selection made while the callback of an earlier one is outstanding
\* writes the same slot again, so a slot holds one answer.
C19_SelectWritesCurrentSlot ==
    [][StepWas("handleAnswerSelect")
          => LET option == lastStep'.response[1]
             IN /\ quizState = "active"
                /\ option \in OptionButtons
                /\ userAnswers' = [userAnswers EXCEPT ![currentQuestionIndex + 1] = option]
                /\ UNCHANGED <<questions, quizState, currentQuestionIndex>>]_vars

\* C19 witness: the first question of a two-question session was selected twice
\* before either callback ran; only its slot holds an answer.
C19_Witness ==
    /\ quizState = "active"
    /\ lastStep.op = "handleAnswerSelect"
    /\ Len(questions) = 2
    /\ currentQuestionIndex = 0
    /\ timers = <<[currentQuestionIndex |-> 0, length |-> 2],
                  [currentQuestionIndex |-> 0, length |-> 2]>>
    /\ userAnswers[1] # null
    /\ userAnswers[2] = null

\* C20: whenever the state is active, 0 <= currentQuestionIndex < questions.length,
\* for every response the handlers accept, the empty list included, and under
\* every interleaving of deferred callbacks with stop, restart and a later
\* generation.
C20_ActiveIndexInRange ==
    quizState = "active" => (0 <= currentQuestionIndex /\ currentQuestionIndex < Len(questions))

\* The text holds no '_' and its '*' are the '**' delimiters of bold spans, one
\* span after the other.
RECURSIVE BoldSpansOnly(_)
BoldSpansOnly(text) ==
    LET i == indexOf(text, <<"*">>)
        rest == substring(text, i + 1)
        j == indexOf(rest, <<"*">>)
    IN /\ indexOf(text, <<"_">>) = 0
       /\ \/ i = 0
          \/ /\ i < Len(text) /\ text[i + 1] = "*"
             /\ j # 0 /\ j < Len(rest) /\ rest[j + 1] = "*"
             /\ BoldSpansOnly(substring(rest, j + 1))

\* No bold span of such a text runs over a line break.
RECURSIVE BoldSpansOnOneLine(_)
BoldSpansOnOneLine(text) ==
    LET i == indexOf(text, <<"*">>)
        rest == substring(text, i + 1)
        j == indexOf(rest, <<"*">>)
    IN \/ i = 0
       \/ /\ indexOf(SubSeq(rest, 1, j - 1), <<"\n">>) = 0
          /\ BoldSpansOnOneLine(substring(rest, j + 1))

\* Such a text with each '**x**' span as '<strong>x</strong>' and each line break
\* as '<br />'.
RECURSIVE BoldSpansAsStrong(_)
BoldSpansAsStrong(text) ==
    LET i == indexOf(text, <<"*">>)
        rest == substring(text, i + 1)
        j == indexOf(rest, <<"*">>)
    IN IF i = 0 THEN lineBreaks(text)
       ELSE lineBreaks(SubSeq(text, 1, i - 1))
               \o <<"<strong>">> \o lineBreaks(SubSeq(rest, 1, j - 1)) \o <<"</strong>">>
               \o BoldSpansAsStrong(substring(rest, j + 1))

BlockTags == {"<h1>", "<h2>", "<h3>", "<p>"}
HeadingMarkers == {<<"#", " ">>, <<"#", "#", " ">>, <<"#", "#", "#", " ">>}

\* What C17 says of the rendering of markdownContent; with oneLine, the bold spans
\* it speaks of are those that hold no line break.
RendersBlocks(markdownContent, oneLine) ==
    LET paragraphs == split(markdownContent)
        storyHtml == StoryRenderer(markdownContent)
    IN /\ storyHtml = join([i \in 1..Len(paragraphs) |-> paragraphHtml(paragraphs[i])])
       /\ Cardinality({k \in 1..Len(storyHtml) : storyHtml[k] \in BlockTags})
             = Cardinality({i \in 1..Len(paragraphs) : ~trimIsEmpty(paragraphs[i])})
       /\ \A i \in 1..Len(paragraphs) :
             LET paragraph == paragraphs[i]
                 block == paragraphHtml(paragraph)
                 heading == startsWith(paragraph, <<"#", " ">>)
                 text == IF heading THEN substring(paragraph, 2) ELSE paragraph
             IN IF trimIsEmpty(paragraph) THEN block = <<>>
                ELSE (heading \/ \A m \in HeadingMarkers : ~startsWith(paragraph, m))
                        => /\ Len(block) >= 2
                           /\ block[1] = (IF heading THEN "<h1>" ELSE "<p>")
                           /\ block[Len(block)] = (IF heading THEN "</h1>" ELSE "</p>")
                           /\ (BoldSpansOnly(text) /\ (oneLine => BoldSpansOnOneLine(text)))
                                 => SubSeq(block, 2, Len(block) - 1) = BoldSpansAsStrong(text)
       /\ markdownContent = titleAndBoldText
             => storyHtml = << "<h1>", "T", "i", "t", "l", "e", "</h1>",
                               "<p>", "S", "o", "m", "e", " ",
                               "<strong>", "b", "o", "l", "d", "</strong>",
                               " ", "t", "e", "x", "t", "</p>" >>

RECURSIVE UnderlinedOnOneLine(_)
UnderlinedOnOneLine(sentence) ==
    LET i == indexOf(sentence, underlineOpen)
        rest == substring(sentence, i + Len(underlineOpen) - 1)
        j == indexOf(rest, underlineClose)
    IN \/ i = 0
       \/ j = 0
       \/ /\ indexOf(SubSeq(rest, 1, j - 1), <<"\n">>) = 0
          /\ UnderlinedOnOneLine(substring(rest, j + Len(underlineClose) - 1))

\* The sentence with each marked span '<underline>x</underline>' as '<u>x</u>' and
\* every other character in its place.
RECURSIVE UnderlinedAsU(_)
UnderlinedAsU(sentence) ==
    LET i == indexOf(sentence, underlineOpen)
        rest == substring(sentence, i + Len(underlineOpen) - 1)
        j == indexOf(rest, underlineClose)
    IN IF i = 0 \/ j = 0 THEN sentence
       ELSE SubSeq(sentence, 1, i - 1)
               \o <<"<u>">> \o SubSeq(rest, 1, j - 1) \o <<"</u>">>
               \o UnderlinedAsU(substring(rest, j + Len(underlineClose) - 1))

\* The sentences of the questions that a quiz view renders.
RenderedSentences ==
    IF quizState \in {"active", "finished"}
    THEN {questions[i].sentence : i \in 1..Len(questions)}
    ELSE {}

C21_StaleCallbackHasNoEffect ==
    [][(StepWas("timeout") /\ quizState # "active")
          => UNCHANGED <<quizState, currentQuestionIndex>>]_vars

\* C22: whenever the state is idle the session is empty: no questions, no
\* answers, index 0 and no story, initially, after every restart and failed
\* generation, and in every idle state after that.
C22_IdleSessionIsEmpty ==
    quizState = "idle"
        => /\ questions = <<>>
           /\ userAnswers = <<>>
           /\ currentQuestionIndex = 0
           /\ storyContent = <<>>

\* C23: during active play no question is skipped: a step of a session that stays
\* active changes currentQuestionIndex by exactly 1 or not at all, repeated
\* selections on one question included, and a deferred callback finishes the
\* session only when the last question is on display.
C23_NoQuestionSkipped ==
    [][(quizState = "active" /\ ~StepWas("try"))
          => /\ (quizState' = "active" /\ currentQuestionIndex' # currentQuestionIndex)
                   => currentQuestionIndex' = currentQuestionIndex + 1
             /\ (StepWas("timeout") /\ quizState' = "finished")
                   => currentQuestionIndex = Len(questions) - 1]_vars

====
